---- MODULE Spec2Model ----
(***************************************************************************)
(* The PPT keyword search app (src/app.py): a Streamlit script that is     *)
(* rerun from top to bottom on every widget interaction.  The model keeps  *)
(* st.session_state, the widget values of the running script, the locals   *)
(* of its search logic and what it has emitted (errors, warnings, progress *)
(* values, documents opened).  One rerun is the chain                      *)
(*     Rerun -> ScanFile* -> Present -> Footer                             *)
(* (Rerun -> Footer when nothing is scanned, Rerun -> Crashed when an      *)
(* archive cannot be read), and no other action is enabled while a rerun   *)
(* is under way.                                                           *)
(*                                                                         *)
(* Text is a sequence of one-character strings.  "^A" stands for a control *)
(* character of the class clean_text removes.  Numbers that Python holds   *)
(* as floats are exact rationals [n, d] here.                              *)
(***************************************************************************)
EXTENDS Integers, Sequences, FiniteSets, TLC

VARIABLES
    \* st.session_state
    run_search, recent_searches, last_results,
    \* the widget values the running script reads, and the button clicked
    clicked, uploaded_files, keywords_input, exact_match, fuzzy_threshold,
    include_ocr, show_preview_images,
    \* locals of the search logic
    keywords, all_pptx_paths, disk, file_index, total_files, total_slides,
    matches,
    \* what the script has emitted in this rerun
    errors, warnings, progress, opened,
    \* position of the script
    pc,
    \* a single call of extract_from_all_shapes
    shape, enable_ocr, collect_images, result, epc

session == <<run_search, recent_searches, last_results>>
widgets == <<clicked, uploaded_files, keywords_input, exact_match,
             fuzzy_threshold, include_ocr, show_preview_images>>
locals  == <<keywords, all_pptx_paths, disk, file_index, total_files,
             total_slides, matches>>
emitted == <<errors, warnings, progress, opened>>
call    == <<shape, enable_ocr, collect_images, result, epc>>
vars    == <<session, widgets, locals, emitted, pc, call>>

--------------------------------------------------------------------------
(* Bounds of the model *)

\* longest recent_searches list a rerun may still append to
MaxRecent == 2
\* most children of the group handed to extract_from_all_shapes
MaxChildren == 2

--------------------------------------------------------------------------
(* Text *)

Whitespace == {" ", "\n", "\t"}
Separators == {",", "\n", ";"}
ControlChars == {"^A"}

Max(a, b) == IF a >= b THEN a ELSE b
Min(S) == CHOOSE x \in S : \A y \in S : x <= y

RECURSIVE Concat(_)
Concat(ss) == IF ss = <<>> THEN <<>> ELSE Head(ss) \o Concat(Tail(ss))

lower_char(c) ==
    CASE c = "A" -> "a"
      [] c = "B" -> "b"
      [] OTHER -> c

lower(s) == [i \in 1..Len(s) |-> lower_char(s[i])]

RECURSIVE lstrip(_)
lstrip(s) ==
    IF s # <<>> /\ Head(s) \in Whitespace THEN lstrip(Tail(s)) ELSE s

RECURSIVE rstrip(_)
rstrip(s) ==
    IF s # <<>> /\ s[Len(s)] \in Whitespace
    THEN rstrip(SubSeq(s, 1, Len(s) - 1))
    ELSE s

strip(s) == rstrip(lstrip(s))

\* re.sub(r"[\000-\010\013\014\016-\037]", "", str(text))
clean_text(text) == SelectSeq(text, LAMBDA c : c \notin ControlChars)

\* x in y for strings
contains(needle, hay) ==
    \E i \in 0..(Len(hay) - Len(needle)) :
        SubSeq(hay, i + 1, i + Len(needle)) = needle

\* re.split(r",|\n|;", s)
RECURSIVE re_split(_)
re_split(s) ==
    LET at == {i \in 1..Len(s) : s[i] \in Separators}
    IN  IF at = {} THEN <<s>>
        ELSE <<SubSeq(s, 1, Min(at) - 1)>>
                 \o re_split(SubSeq(s, Min(at) + 1, Len(s)))

\* [k.strip() for k in re.split(...) if k.strip()]
split_keywords(input) ==
    LET parts == re_split(input)
        stripped == [i \in 1..Len(parts) |-> strip(parts[i])]
    IN  SelectSeq(stripped, LAMBDA k : k # <<>>)

\* ", ".join(keywords)
RECURSIVE join(_)
join(ks) ==
    IF ks = <<>> THEN <<>>
    ELSE IF Len(ks) = 1 THEN ks[1]
    ELSE ks[1] \o <<",", " ">> \o join(Tail(ks))

--------------------------------------------------------------------------
(* rapidfuzz.fuzz.partial_ratio, as exact rationals *)

Rat(n, d) == [n |-> n, d |-> d]
RatGE(a, b) == a.n * b.d >= b.n * a.d
\* int(x) of a non-negative number
int(x) == x.n \div x.d

RECURSIVE LCS(_, _)
LCS(a, b) ==
    IF a = <<>> \/ b = <<>> THEN 0
    ELSE IF Head(a) = Head(b) THEN 1 + LCS(Tail(a), Tail(b))
    ELSE Max(LCS(Tail(a), b), LCS(a, Tail(b)))

\* fuzz.ratio: the normalized Indel similarity, 100 * 2 * LCS / (len1 + len2)
fuzz_ratio(s1, s2) ==
    IF s1 = <<>> /\ s2 = <<>> THEN Rat(100, 1)
    ELSE Rat(200 * LCS(s1, s2), Len(s1) + Len(s2))

\* the substrings of the longer string the shorter one is aligned with:
\* the proper prefixes shorter than it, every window of its length, and the
\* suffixes no longer than it
Windows(len1, s2) ==
    {SubSeq(s2, 1, i) : i \in 1..(len1 - 1)}
        \cup {SubSeq(s2, i + 1, i + len1) : i \in 0..(Len(s2) - len1 - 1)}
        \cup {SubSeq(s2, i + 1, Len(s2)) : i \in (Len(s2) - len1)..(Len(s2) - 1)}

partial_ratio_impl(s1, s2) ==
    LET scores == {fuzz_ratio(s1, w) : w \in Windows(Len(s1), s2)}
    IN  CHOOSE r \in scores : \A q \in scores : RatGE(r, q)

partial_ratio(s1, s2) ==
    IF s1 = <<>> \/ s2 = <<>>
    THEN (IF s1 = <<>> /\ s2 = <<>> THEN Rat(100, 1) ELSE Rat(0, 1))
    ELSE LET shorter == IF Len(s1) <= Len(s2) THEN s1 ELSE s2
             longer  == IF Len(s1) <= Len(s2) THEN s2 ELSE s1
             res  == partial_ratio_impl(shorter, longer)
             res2 == partial_ratio_impl(longer, shorter)
         IN  IF Len(s1) = Len(s2) /\ ~RatGE(res, Rat(100, 1)) /\ ~RatGE(res, res2)
             THEN res2
             ELSE res

--------------------------------------------------------------------------
(* Shapes (python-pptx objects, read only) *)

\* shape_type is "RAISES" for a shape whose shape_type property raises;
\* text_attr says whether the shape has a text attribute and whether reading
\* it raises; blob is "raises" when shape.image.blob raises
NoShape ==
    [shape_type |-> "NONE", text_attr |-> "absent", text |-> <<>>,
     table |-> <<>>, shapes |-> <<>>, blob |-> "raises"]

TextBox(t) == [NoShape EXCEPT !.shape_type = "TEXT_BOX", !.text_attr = "ok", !.text = t]
Group(children) == [NoShape EXCEPT !.shape_type = "GROUP", !.shapes = children]
Picture(b) == [NoShape EXCEPT !.shape_type = "PICTURE", !.blob = b]
Table(rows) == [NoShape EXCEPT !.shape_type = "TABLE", !.table = rows]
\* a shape whose text can be read and whose shape_type raises
Unsupported(t) == [NoShape EXCEPT !.shape_type = "RAISES", !.text_attr = "ok", !.text = t]
\* a shape every attribute of which raises
Malformed == [NoShape EXCEPT !.shape_type = "RAISES", !.text_attr = "raises"]

Cell(t) == [ok |-> TRUE, text |-> t]
BadCell == [ok |-> FALSE, text |-> <<>>]

\* Image.open(BytesIO(img_blob)) succeeds
decodes(b) == b # "png_bad"
\* pytesseract.image_to_string(img)
image_to_string(b) == IF b = "png_A" THEN <<"A">> ELSE <<>>

--------------------------------------------------------------------------
(* extract_from_all_shapes *)

\* The accumulators (text, images) of one call, and whether an exception is
\* on its way out of the block being run.
Acc0 == [exc |-> FALSE, text |-> <<>>, images |-> <<>>]

Raise(acc) == [acc EXCEPT !.exc = TRUE]

\* try: ... except Exception: pass
TryExcept(acc) == [acc EXCEPT !.exc = FALSE]

\* if hasattr(shape, "text") and shape.text: text += shape.text + " "
TextBlock(sh, acc) ==
    IF acc.exc THEN acc
    ELSE CASE sh.text_attr = "absent" -> acc
           [] sh.text_attr = "raises" -> Raise(acc)
           [] OTHER ->
                IF sh.text # <<>>
                THEN [acc EXCEPT !.text = @ \o sh.text \o <<" ">>]
                ELSE acc

\* try: cell_text = tbl.cell(r, c).text; text += cell_text + " "
\* except Exception: pass
CellText(cell) == IF cell.ok THEN cell.text \o <<" ">> ELSE <<>>

RowText(row) == Concat([c \in 1..Len(row) |-> CellText(row[c])])

TableBlock(sh, acc) ==
    IF acc.exc THEN acc
    ELSE CASE sh.shape_type = "RAISES" -> Raise(acc)
           [] sh.shape_type = "TABLE" ->
                [acc EXCEPT !.text =
                    @ \o Concat([r \in 1..Len(sh.table) |-> RowText(sh.table[r])])]
           [] OTHER -> acc

\* variant: text = t + text; images = imgs + images
GroupAppendReversed(acc, r) ==
    IF r.exc THEN Raise(acc)
    ELSE [acc EXCEPT !.text = r.text \o @, !.images = r.images \o @]

\* text += t; images.extend(imgs)
GroupAppend(acc, r) ==
    IF r.exc THEN Raise(acc)
    ELSE [acc EXCEPT !.text = @ \o r.text, !.images = @ \o r.images]

\* if collect_images: images.append(img_blob)
\* if enable_ocr: try: ... text += " " + ocr_text + " " except Exception: pass
PictureBlock(sh, acc, ocr, collect) ==
    IF acc.exc THEN acc
    ELSE CASE sh.shape_type = "RAISES" -> Raise(acc)
           [] sh.shape_type = "PICTURE" ->
                IF sh.blob = "raises" THEN Raise(acc)
                ELSE LET a1 == IF collect
                               THEN [acc EXCEPT !.images = Append(@, sh.blob)]
                               ELSE acc
                     IN  IF ocr /\ decodes(sh.blob) /\ image_to_string(sh.blob) # <<>>
                         THEN [a1 EXCEPT !.text =
                                  @ \o <<" ">> \o image_to_string(sh.blob) \o <<" ">>]
                         ELSE a1
           [] OTHER -> acc

RECURSIVE extract_from_all_shapes(_, _, _)
RECURSIVE GroupLoop(_, _, _, _)

\* for shp in shape.shapes: t, imgs = extract_from_all_shapes(shp, ...)
GroupLoop(children, acc, ocr, collect) ==
    IF children = <<>> \/ acc.exc THEN acc
    ELSE GroupLoop(Tail(children),
                   GroupAppend(acc, extract_from_all_shapes(Head(children), ocr, collect)),
                   ocr, collect)

GroupBlock(sh, acc, ocr, collect) ==
    IF acc.exc THEN acc
    ELSE CASE sh.shape_type = "RAISES" -> Raise(acc)
           [] sh.shape_type = "GROUP" -> GroupLoop(sh.shapes, acc, ocr, collect)
           [] OTHER -> acc

extract_from_all_shapes(sh, ocr, collect) ==
    LET a1 == TryExcept(TextBlock(sh, Acc0))
        a2 == TryExcept(TableBlock(sh, a1))
        a3 == TryExcept(GroupBlock(sh, a2, ocr, collect))
    IN  TryExcept(PictureBlock(sh, a3, ocr, collect))

--------------------------------------------------------------------------
(* The shapes a call is made on *)

Leaves ==
    { TextBox(<<"a">>), TextBox(<<>>), Unsupported(<<"b">>), Malformed,
      Picture("png_A"), Picture("png_bad"), Picture("raises"),
      Table(<< <<Cell(<<"a">>), BadCell>>, <<Cell(<<>>), Cell(<<"b">>)>> >>) }

InnerGroups ==
    { Group(<<>>),
      Group(<<TextBox(<<"b">>), Picture("png_A")>>),
      Group(<<Group(<<Malformed, TextBox(<<"A", " ">>)>>), Picture("png_A")>>) }

Pool == Leaves \cup InnerGroups

SeqsUpTo(S, n) == UNION {[1..k -> S] : k \in 0..n}

CallShapes == Pool \cup {Group(cs) : cs \in SeqsUpTo(Pool, MaxChildren)}

--------------------------------------------------------------------------
(* Documents, uploads and the temporary files *)

Doc(slides) == [ok |-> TRUE, slides |-> slides]
\* a file Presentation() cannot open
Corrupt == [ok |-> FALSE, slides |-> <<>>]

\* dir 0 is tempfile.gettempdir(); dir i > 0 is the directory mkdtemp()
\* made for the i-th uploaded file
Path(dir, name) == [dir |-> dir, name |-> name]
basename(p) == p.name

PptxUpload(name, doc) ==
    [name |-> name, ext |-> "pptx", doc |-> doc, zip_ok |-> TRUE, entries |-> <<>>]
ZipUpload(name, entries) ==
    [name |-> name, ext |-> "zip", doc |-> Corrupt, zip_ok |-> TRUE, entries |-> entries]
\* an upload zipfile.ZipFile() rejects
BadZip(name) ==
    [name |-> name, ext |-> "zip", doc |-> Corrupt, zip_ok |-> FALSE, entries |-> <<>>]
\* a member of an archive; pptx: f.lower().endswith(".pptx")
Entry(name, pptx, doc) == [name |-> name, pptx |-> pptx, doc |-> doc]

\* process_zip: the .pptx members of the archive, extracted under dir
process_zip(file, dir) ==
    LET members == SelectSeq(file.entries, LAMBDA e : e.pptx)
    IN  [i \in 1..Len(members) |-> Path(dir, members[i].name)]

ZipDisk(file, dir) ==
    LET members == SelectSeq(file.entries, LAMBDA e : e.pptx)
    IN  [p \in {Path(dir, members[i].name) : i \in 1..Len(members)} |->
            (CHOOSE e \in {members[i] : i \in 1..Len(members)} :
                 Path(dir, e.name) = p).doc]

\* The loop over uploaded_files that builds all_pptx_paths; st.crashed when
\* process_zip raised, which ends the script
Build0 == [paths |-> <<>>, disk |-> <<>>, total_files |-> 0, crashed |-> FALSE]

BuildOne(st, uploaded, i) ==
    IF uploaded.ext = "pptx"
    THEN [st EXCEPT !.total_files = @ + 1,
                    !.disk = (Path(0, uploaded.name) :> uploaded.doc) @@ @,
                    !.paths = Append(@, Path(0, uploaded.name))]
    ELSE IF ~uploaded.zip_ok
    THEN [st EXCEPT !.crashed = TRUE]
    ELSE [st EXCEPT !.total_files = @ + Len(process_zip(uploaded, i)),
                    !.disk = ZipDisk(uploaded, i) @@ @,
                    !.paths = @ \o process_zip(uploaded, i)]

RECURSIVE BuildPaths(_, _, _)
BuildPaths(files, i, st) ==
    IF i > Len(files) \/ st.crashed THEN st
    ELSE BuildPaths(files, i + 1, BuildOne(st, files[i], i))

--------------------------------------------------------------------------
(* The scan of one document *)

ExcerptLen == 200
FuzzyMin == 50
FuzzyDefault == 80

\* the loop over slide.shapes: slide_text += t; slide_images.extend(imgs)
SlideText(slide, ocr, collect) ==
    Concat([i \in 1..Len(slide) |-> extract_from_all_shapes(slide[i], ocr, collect).text])

SlideImages(slide, ocr, collect) ==
    Concat([i \in 1..Len(slide) |-> extract_from_all_shapes(slide[i], ocr, collect).images])

\* variant: the test without strip()
is_blank_unstripped(cleaned) == cleaned = <<>>

\* if not cleaned.strip(): continue
is_blank(cleaned) == strip(cleaned) = <<>>

\* variant: the threshold is not applied
fuzzy_found_any(similarity, threshold) == TRUE

\* found = similarity >= fuzzy_threshold
fuzzy_found(similarity, threshold) == RatGE(similarity, Rat(threshold, 1))

\* the similarity and found of one keyword on one slide
Evaluate(kw, cleaned, exact, threshold) ==
    IF exact
    THEN LET found == contains(lower(kw), lower(cleaned))
         IN  [found |-> found, similarity |-> IF found THEN Rat(100, 1) ELSE Rat(0, 1)]
    ELSE LET similarity == partial_ratio(lower(kw), lower(cleaned))
         IN  [found |-> fuzzy_found(similarity, threshold), similarity |-> similarity]

Excerpt(cleaned) ==
    IF Len(cleaned) > ExcerptLen
    THEN SubSeq(cleaned, 1, ExcerptLen) \o <<".", ".", ".">>
    ELSE cleaned

MatchRecord(path, slide_num, kw, similarity, cleaned, images) ==
    [File |-> basename(path), Slide_Number |-> slide_num, Keyword |-> kw,
     Similarity |-> int(similarity), Excerpt |-> Excerpt(cleaned),
     FullText |-> cleaned, Images |-> images]

\* for kw in keywords: ... if found: matches.append({...})
RECURSIVE KeywordLoop(_, _, _, _, _, _, _)
KeywordLoop(kws, path, slide_num, cleaned, images, exact, threshold) ==
    IF kws = <<>> THEN <<>>
    ELSE LET ev == Evaluate(Head(kws), cleaned, exact, threshold)
             rest == KeywordLoop(Tail(kws), path, slide_num, cleaned, images,
                                 exact, threshold)
         IN  IF ev.found
             THEN <<MatchRecord(path, slide_num, Head(kws), ev.similarity,
                                cleaned, images)>> \o rest
             ELSE rest

\* variant: enumerate(prs.slides) without start=1
SlideNumFromZero(i) == i - 1

\* enumerate(prs.slides, start=1)
SlideNum(i) == i

\* the records of the i-th slide of a document
SlideMatches(slide, i, path, kws, exact, threshold, ocr, collect) ==
    LET cleaned == clean_text(SlideText(slide, ocr, collect))
    IN  IF is_blank(cleaned) THEN <<>>
        ELSE KeywordLoop(kws, path, SlideNum(i), cleaned,
                         SlideImages(slide, ocr, collect), exact, threshold)

\* for slide_num, slide in enumerate(prs.slides, start=1): ...
DocMatches(doc, path, kws, exact, threshold, ocr, collect) ==
    Concat([i \in 1..Len(doc.slides) |->
               SlideMatches(doc.slides[i], i, path, kws, exact, threshold, ocr, collect)])

--------------------------------------------------------------------------
(* What the user can enter *)

Buttons == {"none", "search", "show_last", "clear_recent", "reset"}

DocA ==
    Doc(<< <<TextBox(<<"A", "b">>)>>,
           <<TextBox(<<"^A">>), Malformed>>,
           <<Group(<<TextBox(<<"b">>)>>), Picture("png_A")>> >>)

DocB == Doc(<< <<TextBox(<<"a", " ", "a">>)>> >>)

UploadChoices ==
    { <<>>,
      <<PptxUpload("x.pptx", DocA), PptxUpload("y.pptx", Corrupt),
        PptxUpload("z.pptx", DocB)>>,
      <<PptxUpload("y.pptx", Corrupt)>>,
      <<ZipUpload("e.zip", <<Entry("notes.txt", FALSE, Corrupt)>>)>>,
      <<ZipUpload("d.zip", <<Entry("z.pptx", TRUE, DocB), Entry("x.pptx", TRUE, DocA)>>),
        PptxUpload("z.pptx", DocA), PptxUpload("z.pptx", Corrupt)>>,
      <<PptxUpload("z.pptx", DocB), BadZip("bad.zip")>> }

KeywordInputs ==
    { <<" ">>,
      <<",">>,
      <<"a", " ", "b", ";", " ", "A", ",", "a", "b">> }

Thresholds == {FuzzyMin, FuzzyDefault}

--------------------------------------------------------------------------
(* The script *)

Warning(kind, file) == [kind |-> kind, file |-> file]

Init ==
    /\ run_search = FALSE
    /\ recent_searches = <<>>
    /\ last_results = <<>>
    /\ clicked = "none"
    /\ uploaded_files = <<>>
    /\ keywords_input = <<>>
    /\ exact_match = FALSE
    /\ fuzzy_threshold = FuzzyDefault
    /\ include_ocr = TRUE
    /\ show_preview_images = TRUE
    /\ keywords = <<>>
    /\ all_pptx_paths = <<>>
    /\ disk = <<>>
    /\ file_index = 0
    /\ total_files = 0
    /\ total_slides = 0
    /\ matches = <<>>
    /\ errors = <<>>
    /\ warnings = <<>>
    /\ progress = <<>>
    /\ opened = <<>>
    /\ pc = "idle"
    /\ shape = NoShape
    /\ enable_ocr = TRUE
    /\ collect_images = FALSE
    /\ result = Acc0
    /\ epc = "off"

\* variant: the flag is set whether or not the button was pressed
ButtonSearchAlways(button, flag) == TRUE

\* if st.button("Search"): run_search = True
\* else: if "run_search" not in st.session_state: run_search = False
ButtonSearch(button, flag) == IF button = "search" THEN TRUE ELSE flag

\* The script from its top to the entry of the loop over all_pptx_paths
Run(button, files, input, exact, threshold, ocr, preview) ==
    LET flag == ButtonSearch(button, run_search)
        kws == split_keywords(input)
        built == BuildPaths(files, 1, Build0)
    IN  /\ clicked' = button
        /\ uploaded_files' = files
        /\ keywords_input' = input
        /\ exact_match' = exact
        /\ fuzzy_threshold' = threshold
        /\ include_ocr' = ocr
        /\ show_preview_images' = preview
        /\ UNCHANGED <<last_results, file_index, total_slides, matches, opened, call>>
        /\ IF ~flag
           THEN /\ pc' = "footer"
                /\ run_search' = flag
                /\ UNCHANGED <<recent_searches, keywords, all_pptx_paths, disk,
                               total_files, errors, warnings, progress>>
           ELSE IF files = <<>>
           THEN /\ errors' = Append(errors, "upload")
                /\ run_search' = FALSE
                /\ pc' = "footer"
                /\ UNCHANGED <<recent_searches, keywords, all_pptx_paths, disk,
                               total_files, warnings, progress>>
           ELSE IF strip(input) = <<>>
           THEN /\ errors' = Append(errors, "keyword")
                /\ run_search' = FALSE
                /\ pc' = "footer"
                /\ UNCHANGED <<recent_searches, keywords, all_pptx_paths, disk,
                               total_files, warnings, progress>>
           ELSE /\ Len(recent_searches) < MaxRecent
                /\ keywords' = kws
                /\ recent_searches' = Append(recent_searches, join(kws))
                /\ progress' = Append(progress, 0)
                /\ all_pptx_paths' = built.paths
                /\ disk' = built.disk
                /\ total_files' = built.total_files
                /\ UNCHANGED errors
                /\ IF built.crashed
                   THEN /\ pc' = "crashed"
                        /\ run_search' = flag
                        /\ UNCHANGED warnings
                   ELSE IF built.paths = <<>>
                   THEN /\ warnings' = Append(warnings, Warning("no_pptx", ""))
                        /\ run_search' = FALSE
                        /\ pc' = "footer"
                   ELSE /\ run_search' = flag
                        /\ pc' = "scan"
                        /\ UNCHANGED warnings

Rerun ==
    /\ pc = "idle"
    /\ \E button \in Buttons, files \in UploadChoices, input \in KeywordInputs,
          exact \in BOOLEAN, threshold \in Thresholds, ocr \in BOOLEAN,
          preview \in BOOLEAN :
           Run(button, files, input, exact, threshold, ocr, preview)

\* variant: the failure is swallowed without a warning
OpenFailedSilent(log, path) == log

\* st.warning(f"Could not open ...")
OpenFailed(log, path) == Append(log, Warning("open_failed", basename(path)))

\* variant: the records are put in front of the earlier ones
AppendMatchesFront(found, new) == new \o found

\* matches.append({...}), for the records of one document
AppendMatches(found, new) == found \o new

\* progress = int((file_index / len(all_pptx_paths)) * 100)
Progress(index, n) == int(Rat(index * 100, n))

\* One pass of: for file_path in all_pptx_paths
ScanFile ==
    /\ pc = "scan"
    /\ file_index < Len(all_pptx_paths)
    /\ LET path == all_pptx_paths[file_index + 1]
           prs == disk[path]
       IN  /\ file_index' = file_index + 1
           /\ opened' = Append(opened, path)
           /\ IF ~prs.ok
              THEN /\ warnings' = OpenFailed(warnings, path)
                   /\ UNCHANGED <<total_slides, matches, progress>>
              ELSE /\ total_slides' = total_slides + Len(prs.slides)
                   /\ matches' = AppendMatches(matches,
                          DocMatches(prs, path, keywords, exact_match,
                                     fuzzy_threshold, include_ocr, show_preview_images))
                   /\ progress' = Append(progress,
                                         Progress(file_index + 1, Len(all_pptx_paths)))
                   /\ UNCHANGED warnings
    /\ UNCHANGED <<session, widgets, keywords, all_pptx_paths, disk, total_files,
                   errors, pc, call>>

\* variant: the last results are not cleared when nothing matched
StoreResultsIfAny(previous, found) == IF found = <<>> THEN previous ELSE found

\* st.session_state.last_results = pd.DataFrame() if not matches else df.copy()
StoreResults(previous, found) == found

\* After the loop: progress_bar.progress(100), and the results are kept
Present ==
    /\ pc = "scan"
    /\ file_index = Len(all_pptx_paths)
    /\ progress' = Append(progress, 100)
    /\ warnings' = IF matches = <<>>
                   THEN Append(warnings, Warning("no_matches", ""))
                   ELSE warnings
    /\ last_results' = StoreResults(last_results, matches)
    /\ pc' = "footer"
    /\ UNCHANGED <<run_search, recent_searches, widgets, locals, errors, opened, call>>

\* The script is over: its locals and what it showed are gone
ScriptEnds ==
    /\ clicked' = "none"
    /\ uploaded_files' = <<>>
    /\ keywords_input' = <<>>
    /\ exact_match' = FALSE
    /\ fuzzy_threshold' = FuzzyDefault
    /\ include_ocr' = TRUE
    /\ show_preview_images' = TRUE
    /\ keywords' = <<>>
    /\ all_pptx_paths' = <<>>
    /\ disk' = <<>>
    /\ file_index' = 0
    /\ total_files' = 0
    /\ total_slides' = 0
    /\ matches' = <<>>
    /\ errors' = <<>>
    /\ warnings' = <<>>
    /\ progress' = <<>>
    /\ opened' = <<>>
    /\ pc' = "idle"
    /\ UNCHANGED call

\* The quick actions.  "Reset app state" clears the session state and reruns
\* the script at once; that run, with no button pressed, sets the defaults of
\* lines 29-33 and 91-92 and does nothing else.
Footer ==
    /\ pc = "footer"
    /\ CASE clicked = "clear_recent" ->
                /\ recent_searches' = <<>>
                /\ UNCHANGED <<run_search, last_results>>
         [] clicked = "reset" ->
                /\ recent_searches' = <<>>
                /\ last_results' = <<>>
                /\ run_search' = FALSE
         [] OTHER -> UNCHANGED session
    /\ ScriptEnds

\* process_zip raised: the exception ends the script before the quick actions
Crashed ==
    /\ pc = "crashed"
    /\ UNCHANGED session
    /\ ScriptEnds

Next == Rerun \/ ScanFile \/ Present \/ Footer \/ Crashed

Spec == Init /\ [][Next]_vars

--------------------------------------------------------------------------
(* One call of extract_from_all_shapes on its own *)

InitExtract ==
    /\ run_search = FALSE
    /\ recent_searches = <<>>
    /\ last_results = <<>>
    /\ clicked = "none"
    /\ uploaded_files = <<>>
    /\ keywords_input = <<>>
    /\ exact_match = FALSE
    /\ fuzzy_threshold = FuzzyDefault
    /\ include_ocr = TRUE
    /\ show_preview_images = TRUE
    /\ keywords = <<>>
    /\ all_pptx_paths = <<>>
    /\ disk = <<>>
    /\ file_index = 0
    /\ total_files = 0
    /\ total_slides = 0
    /\ matches = <<>>
    /\ errors = <<>>
    /\ warnings = <<>>
    /\ progress = <<>>
    /\ opened = <<>>
    /\ pc = "off"
    /\ shape \in CallShapes
    /\ enable_ocr \in BOOLEAN
    /\ collect_images \in BOOLEAN
    /\ result = Acc0
    /\ epc = "call"

Extract ==
    /\ epc = "call"
    /\ result' = extract_from_all_shapes(shape, enable_ocr, collect_images)
    /\ epc' = "returned"
    /\ UNCHANGED <<session, widgets, locals, emitted, pc, shape, enable_ocr,
                   collect_images>>

NextExtract == Extract

SpecExtract == InitExtract /\ [][NextExtract]_vars

--------------------------------------------------------------------------
(* Vocabulary of the properties *)

\* the text has a character that is not whitespace
HasInk(text) == \E j \in 1..Len(text) : text[j] \notin Whitespace

\* the script entered the search logic in this rerun
SearchRequested == errors # <<>> \/ progress # <<>>

\* the loop over all_pptx_paths ran to its end in this rerun
ScanCompleted == progress # <<>> /\ progress[Len(progress)] = 100

\* the document at the d-th path, and whether Presentation() opens it
DocAt(d) == disk[all_pptx_paths[d]]
Opens(d) == DocAt(d).ok

OpenWarnings == SelectSeq(warnings, LAMBDA w : w.kind = "open_failed")

\* the normalized text of slide s of the d-th document
NormalizedText(d, s) ==
    clean_text(SlideText(DocAt(d).slides[s], include_ocr, show_preview_images))

\* the keyword matches the text under the mode and threshold in force
KeywordMatches(kw, text) ==
    /\ HasInk(text)
    /\ IF exact_match
       THEN contains(lower(kw), lower(text))
       ELSE RatGE(partial_ratio(lower(kw), lower(text)), Rat(fuzzy_threshold, 1))

--------------------------------------------------------------------------
(* C1 *)

\* the documents among the first n paths that Presentation() opens, in order
OpenedOk(n) ==
    SelectSeq([d \in 1..n |-> d], LAMBDA d : Opens(d))

FailedNames(n) ==
    LET failed == SelectSeq([d \in 1..n |-> d], LAMBDA d : ~Opens(d))
    IN  [i \in 1..Len(failed) |-> basename(all_pptx_paths[failed[i]])]

\* C1: a document that fails to open never aborts the scan.  After the
\* first file_index documents have been handled there is exactly one
\* "could not open" warning for each of them that failed, in input order;
\* the documents were opened one after the other in input order; the result
\* holds exactly the records of those that opened; and the script leaves the
\* loop only when every path has been handled.
C1_FailedOpenNeverAborts ==
    pc \in {"scan", "footer"} =>
        /\ file_index <= Len(all_pptx_paths)
        /\ opened = SubSeq(all_pptx_paths, 1, file_index)
        /\ [i \in 1..Len(OpenWarnings) |-> OpenWarnings[i].file] = FailedNames(file_index)
        /\ matches =
              Concat([i \in 1..Len(OpenedOk(file_index)) |->
                  LET d == OpenedOk(file_index)[i]
                  IN  DocMatches(DocAt(d), all_pptx_paths[d], keywords, exact_match,
                                 fuzzy_threshold, include_ocr, show_preview_images)])
        /\ (pc = "footer" => file_index = Len(all_pptx_paths))

\* three paths, the second corrupt: records of the first and of the third
\* document, and one warning
C1_Witness ==
    /\ pc = "footer"
    /\ Len(all_pptx_paths) = 3
    /\ Opens(1) /\ ~Opens(2) /\ Opens(3)
    /\ Len(OpenWarnings) = 1
    /\ \E i, j \in 1..Len(matches) :
          /\ matches[i].File = basename(all_pptx_paths[1])
          /\ matches[j].File = basename(all_pptx_paths[3])

--------------------------------------------------------------------------
(* C2 *)

\* C2: a search request whose keyword list is empty, or that has no
\* documents, ends with an error reported, no document opened and no match
\* record.
C2_InvalidConfigRejected ==
    (/\ pc = "footer"
     /\ SearchRequested
     /\ (split_keywords(keywords_input) = <<>> \/ uploaded_files = <<>>))
        => (errors # <<>> /\ opened = <<>> /\ matches = <<>>)

--------------------------------------------------------------------------
(* C3 *)

\* C3: every record of the result has similarity 100 in exact mode; in
\* fuzzy mode its similarity is the integer part of the partial ratio of the
\* lowercased keyword and text, lies in 0..100 and is at least the threshold.
C3_ScoreInvariant ==
    \A i \in 1..Len(matches) :
        LET m == matches[i]
        IN  IF exact_match
            THEN m.Similarity = 100
            ELSE /\ m.Similarity = int(partial_ratio(lower(m.Keyword), lower(m.FullText)))
                 /\ m.Similarity \in 0..100
                 /\ m.Similarity >= fuzzy_threshold

\* a fuzzy scan that recorded an inexact match, and one that fell below the
\* threshold on the same slide
C3_Witness ==
    /\ pc = "footer"
    /\ ~exact_match
    /\ \E i \in 1..Len(matches) :
          /\ matches[i].Similarity < 100
          /\ \E kw \in {keywords[k] : k \in 1..Len(keywords)} :
                ~RatGE(partial_ratio(lower(kw), lower(matches[i].FullText)),
                       Rat(fuzzy_threshold, 1))

--------------------------------------------------------------------------
(* C4 *)

\* C4: no record of the result, and none kept in the session, comes from a
\* slide whose normalized text is empty or only whitespace.
C4_EmptySlideNeverMatches ==
    /\ \A i \in 1..Len(matches) : HasInk(matches[i].FullText)
    /\ \A i \in 1..Len(last_results) : HasInk(last_results[i].FullText)

\* a fuzzy scan, at the lowest threshold and with a keyword that holds a
\* space, has passed a slide whose text is only whitespace
C4_Witness ==
    /\ pc = "scan"
    /\ ~exact_match
    /\ fuzzy_threshold = FuzzyMin
    /\ \E k \in 1..Len(keywords) : \E j \in 1..Len(keywords[k]) : keywords[k][j] = " "
    /\ \E d \in 1..file_index :
          /\ Opens(d)
          /\ \E s \in 1..Len(DocAt(d).slides) :
                /\ NormalizedText(d, s) # <<>>
                /\ ~HasInk(NormalizedText(d, s))

--------------------------------------------------------------------------
(* C5 *)

SlideCount(d) == IF Opens(d) THEN Len(DocAt(d).slides) ELSE 0

\* every (document, slide, keyword) of the first n documents, in
\* lexicographic order
Triples(n) ==
    Concat([d \in 1..n |->
        Concat([s \in 1..SlideCount(d) |->
            [k \in 1..Len(keywords) |-> <<d, s, k>>]])])

Hits(n) ==
    SelectSeq(Triples(n), LAMBDA t : KeywordMatches(keywords[t[3]], NormalizedText(t[1], t[2])))

\* C5: the result is the enumeration of the (document, slide, keyword)
\* triples in document, slide and keyword order, filtered to those whose
\* keyword matches the slide text, one record for each.
C5_ResultIsFilteredEnumeration ==
    pc \in {"scan", "footer"} =>
        LET hits == Hits(file_index)
        IN  /\ Len(matches) = Len(hits)
            /\ \A i \in 1..Len(hits) :
                  /\ matches[i].File = basename(all_pptx_paths[hits[i][1]])
                  /\ matches[i].Slide_Number = hits[i][2]
                  /\ matches[i].Keyword = keywords[hits[i][3]]
                  /\ matches[i].FullText = NormalizedText(hits[i][1], hits[i][2])

\* two keywords matched one slide and a third did not, and two documents
\* have records
C5_Witness ==
    /\ pc = "footer"
    /\ Len(matches) < Len(Triples(file_index))
    /\ \E i, j \in 1..Len(matches) :
          /\ i < j
          /\ matches[i].File = matches[j].File
          /\ matches[i].Slide_Number = matches[j].Slide_Number
          /\ matches[i].Keyword # matches[j].Keyword
    /\ \E i, j \in 1..Len(matches) : matches[i].File # matches[j].File

--------------------------------------------------------------------------
(* C6 *)

\* C6: progress values never decrease and never pass 100; inside the loop
\* one value has been reported for each document handled so far, the i-th
\* being the fraction i of n; the last value of a finished scan is 100.
C6_ProgressAfterEachDocument ==
    /\ \A i \in 1..Len(progress) : progress[i] <= 100
    /\ \A i \in 1..(Len(progress) - 1) : progress[i] <= progress[i + 1]
    /\ pc = "scan" =>
          /\ Len(progress) = file_index + 1
          /\ \A i \in 1..file_index :
                progress[i + 1] = (i * 100) \div Len(all_pptx_paths)
    /\ (pc = "footer" /\ file_index > 0) => progress[Len(progress)] = 100

--------------------------------------------------------------------------
(* C7 *)

\* C7: the slide number of every record is the 1-based position, in its own
\* document, of the slide whose normalized text the record holds.
C7_SlideIndexIsPosition ==
    \A i \in 1..Len(matches) :
        \E d \in 1..file_index :
            /\ Opens(d)
            /\ basename(all_pptx_paths[d]) = matches[i].File
            /\ matches[i].Slide_Number \in 1..Len(DocAt(d).slides)
            /\ NormalizedText(d, matches[i].Slide_Number) = matches[i].FullText

\* a record of the third slide of a document whose second slide has no
\* text, followed by a record of the first slide of a later document
C7_Witness ==
    /\ pc = "footer"
    /\ \E d \in 1..Len(all_pptx_paths) :
          /\ Opens(d)
          /\ Len(DocAt(d).slides) >= 3
          /\ ~HasInk(NormalizedText(d, 2))
          /\ \E i, j \in 1..Len(matches) :
                /\ i < j
                /\ matches[i].File = basename(all_pptx_paths[d])
                /\ matches[i].Slide_Number = 3
                /\ matches[j].File # matches[i].File
                /\ matches[j].Slide_Number = 1

--------------------------------------------------------------------------
(* C8 *)

RECURSIVE Subshapes(_)
Subshapes(sh) ==
    {sh} \cup UNION {Subshapes(sh.shapes[i]) : i \in 1..Len(sh.shapes)}

\* what a call on c returns under the options of the call being observed
Ex(c) == extract_from_all_shapes(c, enable_ocr, collect_images)

\* the result of the call on g: the one observed for the shape handed in
ResultOf(g) == IF g = shape THEN result ELSE Ex(g)

\* some block of the call on c raises
HitsMalformed(c) ==
    \/ c.text_attr = "raises"
    \/ c.shape_type = "RAISES"
    \/ c.shape_type = "PICTURE" /\ c.blob = "raises"
    \/ c.shape_type = "PICTURE" /\ enable_ocr /\ ~decodes(c.blob)
    \/ c.shape_type = "TABLE"
         /\ \E r \in 1..Len(c.table) : \E k \in 1..Len(c.table[r]) : ~c.table[r][k].ok

\* c with every raising part taken away
Repaired(c) ==
    [c EXCEPT
        !.text_attr = IF @ = "raises" THEN "absent" ELSE @,
        !.shape_type = IF @ = "RAISES" \/ (@ = "PICTURE" /\ c.blob = "raises")
                       THEN "NONE" ELSE @,
        !.table = [r \in 1..Len(@) |-> SelectSeq(@[r], LAMBDA x : x.ok)]]

\* the text and images of a group are those of its children, in child order,
\* and a text child yields its text followed by one space
Flattens(g) ==
    /\ ~ResultOf(g).exc
    /\ ResultOf(g).text = Concat([i \in 1..Len(g.shapes) |-> Ex(g.shapes[i]).text])
    /\ ResultOf(g).images = Concat([i \in 1..Len(g.shapes) |-> Ex(g.shapes[i]).images])
    /\ \A i \in 1..Len(g.shapes) :
          LET c == g.shapes[i]
          IN  (c.shape_type = "TEXT_BOX" /\ c.text_attr = "ok" /\ c.text # <<>>)
                  => Ex(c).text = c.text \o <<" ">>

GroupsOfCall == {g \in Subshapes(shape) : g.shape_type = "GROUP"}

\* C8, as stated: every group of the tree flattens its children, and a child
\* whose extraction hits malformed structure contributes nothing.
C8_MalformedChildContributesNothing ==
    epc = "returned" =>
        \A g \in GroupsOfCall :
            /\ Flattens(g)
            /\ \A i \in 1..Len(g.shapes) :
                  HitsMalformed(g.shapes[i]) =>
                      (Ex(g.shapes[i]).text = <<>> /\ Ex(g.shapes[i]).images = <<>>)

\* C8, amended: every group of the tree flattens its children; the part of
\* a child that raises contributes nothing, so the child yields what it
\* would yield without that part, nothing at all when every part raises, and
\* no text from an image that cannot be decoded; the call never fails.
C8_GroupFlattening ==
    epc = "returned" =>
        /\ ~result.exc
        /\ \A g \in GroupsOfCall :
              /\ Flattens(g)
              /\ \A i \in 1..Len(g.shapes) :
                    LET c == g.shapes[i]
                    IN  /\ Ex(c).text = Ex(Repaired(c)).text
                        /\ Ex(c).images = Ex(Repaired(c)).images
                        /\ (c.text_attr = "raises" /\ c.shape_type = "RAISES")
                              => (Ex(c).text = <<>> /\ Ex(c).images = <<>>)
                        /\ (c.shape_type = "PICTURE" /\ c.blob # "raises"
                                /\ ~decodes(c.blob))
                              => Ex(c).text = <<>>

\* a group of a nested group that holds a malformed shape and of a shape
\* whose type raises and whose text is kept; text and images came back
C8_Witness ==
    /\ epc = "returned"
    /\ shape.shape_type = "GROUP"
    /\ Len(shape.shapes) = 2
    /\ \E g \in GroupsOfCall \ {shape} :
          \E h \in GroupsOfCall \ {shape, g} :
              h \in Subshapes(g) /\ Malformed \in Subshapes(h)
    /\ \E i \in 1..2 : HitsMalformed(shape.shapes[i]) /\ Ex(shape.shapes[i]).text # <<>>
    /\ result.text # <<>>
    /\ result.images # <<>>

--------------------------------------------------------------------------
(* C9 *)

\* run_search as the search logic of the rerun that starts finds it
FlagAtSearch == run_search \/ clicked' = "search"

\* the two input validations of the rerun that starts
PassesValidation == uploaded_files' # <<>> /\ HasInk(keywords_input')

Grown(before, after) ==
    Len(after) = Len(before) + 1 /\ SubSeq(after, 1, Len(before)) = before

\* C9: run_search turns true only on a click of Search; the search logic is
\* entered only with the flag true; a rerun that fails a validation or finds
\* no PPTX path turns it false; a rerun that scans leaves it true, so a later
\* rerun with the flag true scans again without a click; recent_searches
\* grows by one entry in each rerun that passes both validations and is
\* emptied only by "Clear recent searches" and "Reset app state".
C9_RunSearchFlag ==
    [][ /\ (~run_search /\ run_search') => (pc = "idle" /\ clicked' = "search")
        /\ pc = "idle" =>
              /\ (errors' # <<>> \/ progress' # <<>> \/ pc' \in {"scan", "crashed"})
                    => FlagAtSearch
              /\ ~FlagAtSearch =>
                    (pc' = "footer" /\ ~run_search' /\ recent_searches' = recent_searches)
              /\ (FlagAtSearch /\ ~PassesValidation) =>
                    (pc' = "footer" /\ ~run_search' /\ recent_searches' = recent_searches)
              /\ (FlagAtSearch /\ PassesValidation) =>
                    /\ Grown(recent_searches, recent_searches')
                    /\ pc' = "scan" => (run_search' /\ all_pptx_paths' # <<>>)
                    /\ pc' = "footer" => (~run_search' /\ all_pptx_paths' = <<>>)
        /\ pc = "scan" =>
              (run_search /\ run_search' /\ recent_searches' = recent_searches)
        /\ pc = "crashed" =>
              (run_search' = run_search /\ recent_searches' = recent_searches)
        /\ pc = "footer" =>
              /\ run_search' = (run_search /\ clicked # "reset")
              /\ recent_searches' = IF clicked \in {"clear_recent", "reset"}
                                    THEN <<>> ELSE recent_searches
      ]_vars

\* the second scan in a row, started by a rerun in which Search was not
\* clicked, has completed and left the flag true
C9_Witness ==
    /\ pc = "footer"
    /\ clicked = "none"
    /\ run_search
    /\ ScanCompleted
    /\ Len(recent_searches) = 2

--------------------------------------------------------------------------
(* C10 *)

\* C10, as stated: the rerun of a completed scan ends with last_results
\* equal to that scan's records; any other rerun leaves it unchanged.
C10_LastResultsReflectLastScan ==
    [][ /\ pc = "idle" => last_results' = last_results
        /\ (pc = "scan" /\ pc' = "scan") => last_results' = last_results
        /\ (pc = "scan" /\ pc' = "footer") => last_results' = matches
        /\ pc = "crashed" => last_results' = last_results
        /\ pc = "footer" =>
              last_results' = IF ScanCompleted THEN matches ELSE last_results
      ]_vars

\* C10, amended: the same, except that a rerun in which "Reset app state"
\* was clicked ends with last_results empty, whether or not it scanned.
C10_LastResultsUnlessReset ==
    [][ /\ pc = "idle" => last_results' = last_results
        /\ (pc = "scan" /\ pc' = "scan") => last_results' = last_results
        /\ (pc = "scan" /\ pc' = "footer") => last_results' = matches
        /\ pc = "crashed" => last_results' = last_results
        /\ pc = "footer" =>
              last_results' = IF clicked = "reset" THEN <<>>
                              ELSE IF ScanCompleted THEN matches
                              ELSE last_results
      ]_vars

\* a second scan in a row, in which every document failed to open, has
\* completed and stored the empty table
C10_Witness ==
    /\ pc = "footer"
    /\ ScanCompleted
    /\ opened # <<>>
    /\ \A d \in 1..Len(all_pptx_paths) : ~Opens(d)
    /\ last_results = <<>>
    /\ Len(recent_searches) = 2

====
